---- MODULE Spec2Model ----
(***************************************************************************)
(* Model of the tktr admin/API server (src/space/server.js) over its       *)
(* SQLite schema (src/space/db.js).  Every Express handler is one action;  *)
(* the tables, the server-side session store and the browsers' cookies are *)
(* the state.  Request bodies are JSON values, modelled with their         *)
(* JavaScript type so that truthiness, Number(), String.prototype.trim and *)
(* the JSON encoding of links are computed as the code computes them.      *)
(* A handler runs to completion before the next request is taken up; the   *)
(* callback of session.destroy is part of the logout handler's step.       *)
(* Numbers are integers.  Timestamps (created_at, updated_at), the rate    *)
(* limiter and the CORS middleware are not modelled.                       *)
(***************************************************************************)
EXTENDS Integers, Sequences, FiniteSets

(***************************************************************************)
(* Bounds of the model.                                                    *)
(***************************************************************************)
\* longest audit log explored; every audited handler is cut off beyond it
MaxAudit == 3

Clients == {"c1", "c2"}

(***************************************************************************)
(* JavaScript values as they arrive in a parsed JSON body.  A string is a  *)
(* sequence of one-character strings; a missing field is undefined.        *)
(***************************************************************************)
JsVal(t, s, n, a) == [t |-> t, s |-> s, n |-> n, a |-> a]
Undef == JsVal("undefined", <<>>, 0, <<>>)
Null == JsVal("null", <<>>, 0, <<>>)
Str(s) == JsVal("string", s, 0, <<>>)
Num(n) == JsVal("number", <<>>, n, <<>>)
Bool(b) == JsVal("boolean", <<>>, IF b THEN 1 ELSE 0, <<>>)
Obj == JsVal("object", <<>>, 0, <<>>)
Arr(a) == JsVal("array", <<>>, 0, a)

\* ToBoolean: the test behind !x, x || y and x ? a : b
Truthy(v) ==
  CASE v.t = "undefined" -> FALSE
    [] v.t = "null" -> FALSE
    [] v.t = "string" -> v.s # <<>>
    [] v.t = "number" -> v.n # 0
    [] v.t = "boolean" -> v.n = 1
    [] OTHER -> TRUE

\* a destructuring default (sort = 0) replaces undefined only
Default(v, d) == IF v.t = "undefined" THEN d ELSE v

IsWhite(ch) == ch \in {" ", "\t", "\n"}

RECURSIVE TrimStart(_)
TrimStart(s) ==
  IF s # <<>> /\ IsWhite(Head(s)) THEN TrimStart(Tail(s)) ELSE s

RECURSIVE TrimEnd(_)
TrimEnd(s) ==
  IF s # <<>> /\ IsWhite(s[Len(s)]) THEN TrimEnd(SubSeq(s, 1, Len(s) - 1)) ELSE s

\* (mutant) only leading white space is removed
trimStartOnly(s) == TrimStart(s)

\* String.prototype.trim
trim(s) == TrimEnd(TrimStart(s))

\* x.trim() is a TypeError unless x is a string
HasTrim(v) == v.t = "string"

Digits == <<"0", "1", "2", "3", "4", "5", "6", "7", "8", "9">>
IsDigit(ch) == \E i \in 1..10 : Digits[i] = ch
DigitVal(ch) == (CHOOSE i \in 1..10 : Digits[i] = ch) - 1

RECURSIVE DecimalValue(_)
DecimalValue(s) ==
  IF s = <<>> THEN 0
  ELSE 10 * DecimalValue(SubSeq(s, 1, Len(s) - 1)) + DigitVal(s[Len(s)])

NaN == [nan |-> TRUE, v |-> 0]
Finite(n) == [nan |-> FALSE, v |-> n]

\* StringToNumber on the trimmed text: "" is 0, an integer literal with an
\* optional sign is its value, any other text explored here is NaN
StringToNumber(s) ==
  LET body == IF s # <<>> /\ Head(s) \in {"-", "+"} THEN Tail(s) ELSE s
      neg == s # <<>> /\ Head(s) = "-"
  IN  IF s = <<>> THEN Finite(0)
      ELSE IF body # <<>> /\ \A i \in 1..Len(body) : IsDigit(body[i])
           THEN Finite(IF neg THEN 0 - DecimalValue(body) ELSE DecimalValue(body))
           ELSE NaN

\* Number(v)
Number(v) ==
  CASE v.t = "undefined" -> NaN
    [] v.t = "null" -> Finite(0)
    [] v.t = "boolean" -> Finite(v.n)
    [] v.t = "number" -> Finite(v.n)
    [] v.t = "string" -> StringToNumber(trim(v.s))
    [] v.t = "array" -> IF v.a = <<>> THEN Finite(0) ELSE NaN
    [] OTHER -> NaN

\* Number.isFinite
IsFinite(x) == ~x.nan

RECURSIVE DecimalDigits(_)
DecimalDigits(n) ==
  IF n < 10 THEN <<Digits[n + 1]>>
  ELSE DecimalDigits(n \div 10) \o <<Digits[(n % 10) + 1]>>

\* Number::toString for an integer
NumberToString(n) ==
  IF n < 0 THEN <<"-">> \o DecimalDigits(0 - n) ELSE DecimalDigits(n)

\* String(v) for the scalar values a JSON body can hold
String(v) ==
  CASE v.t = "string" -> v.s
    [] v.t = "number" -> NumberToString(v.n)
    [] v.t = "boolean" -> IF v.n = 1 THEN <<"t", "r", "u", "e">>
                          ELSE <<"f", "a", "l", "s", "e">>
    [] v.t = "null" -> <<"n", "u", "l", "l">>
    [] OTHER -> <<>>

(***************************************************************************)
(* JSON text is a sequence of tokens: the punctuation marks, and each      *)
(* string's or number's contents as one token between its delimiters.      *)
(* A link is an object {url, label} of two strings.                        *)
(***************************************************************************)
Link(u, l) == [url |-> u, label |-> l]

StringifyLink(k) ==
  <<"{", "\"", "url", "\"", ":", "\"", k.url, "\"", ",",
    "\"", "label", "\"", ":", "\"", k.label, "\"", "}">>

RECURSIVE StringifyLinks(_)
StringifyLinks(a) ==
  IF a = <<>> THEN <<>>
  ELSE IF Len(a) = 1 THEN StringifyLink(a[1])
  ELSE StringifyLink(a[1]) \o <<",">> \o StringifyLinks(Tail(a))

\* JSON.stringify of an array of links
JSONstringify(a) == <<"[">> \o StringifyLinks(a) \o <<"]">>

LinkLen == Len(StringifyLink(Link("", "")))

\* the link object whose text starts at token i, if one does
LinkAt(toks, i) ==
  LET u == toks[i + 6]
      l == toks[i + 14]
  IN  IF i + LinkLen - 1 <= Len(toks)
         /\ SubSeq(toks, i, i + LinkLen - 1) = StringifyLink(Link(u, l))
      THEN <<Link(u, l)>> ELSE <<>>

\* the elements from token i up to the closing bracket; ok is FALSE where
\* JSON.parse would throw a SyntaxError
RECURSIVE ParseElements(_, _)
ParseElements(toks, i) ==
  LET k == LinkAt(toks, i)
      j == i + LinkLen
  IN  IF k = <<>> \/ j > Len(toks) THEN [ok |-> FALSE, val |-> <<>>]
      ELSE IF toks[j] = "]" /\ j = Len(toks) THEN [ok |-> TRUE, val |-> k]
      ELSE IF toks[j] = ","
           THEN LET rest == ParseElements(toks, j + 1)
                IN  [ok |-> rest.ok, val |-> IF rest.ok THEN k \o rest.val ELSE <<>>]
           ELSE [ok |-> FALSE, val |-> <<>>]

\* JSON.parse of the text of an array of links
JSONparse(toks) ==
  IF Len(toks) >= 2 /\ toks[1] = "[" /\ toks[2] = "]" /\ Len(toks) = 2
  THEN [ok |-> TRUE, val |-> <<>>]
  ELSE IF Len(toks) >= 2 /\ toks[1] = "["
       THEN ParseElements(toks, 2)
       ELSE [ok |-> FALSE, val |-> <<>>]

\* (mutant) the submitted links are dropped
LinksIgnored(v) == <<>>

\* Array.isArray(links) ? links : []
LinksOrEmpty(v) == IF v.t = "array" THEN v.a ELSE <<>>

(***************************************************************************)
(* Configuration (server.js, "config") and the bcryptjs calls.             *)
(***************************************************************************)
ADMIN_USERNAME == <<"a", "d", "m", "i", "n">>

\* process.env.X || null
OrNull(v) == IF Truthy(v) THEN v ELSE Null

\* bcrypt.hashSync(s, 12): the hash determines the password and nothing
\* else has that hash
hashSync(s) == <<"$", "2", "a", "$", "1", "2", "$">> \o s

\* bcrypt.compareSync(s, hash) throws "Illegal arguments" unless s is a string
compareThrows(s) == s.t # "string"
compareSync(s, hash) == hashSync(s.s) = hash

(***************************************************************************)
(* State.                                                                  *)
(***************************************************************************)
VARIABLES
  env,        \* process.env.ADMIN_PASSWORD as the process was started
  boot,       \* how far start-up got: "start", or the branch ensureAdminUser took
  users,      \* table users, rows in id order
  content,    \* table content
  skills,     \* table skills
  projects,   \* table projects
  audit_log,  \* table audit_log, rows in id order
  store,      \* the session store: the live sessions, each with its id
  sids,       \* number of session ids generated so far
  cookie,     \* each browser's tektrey.sid cookie, 0 when it has none
  last,       \* the request handled last and the response it got
  completed,  \* number of logins, logouts and admin mutations answered 200
  loggedOut,  \* session ids whose logout has been answered, with no login since
  lastPut     \* the fields submitted by the content update accepted last

vars == <<env, boot, users, content, skills, projects, audit_log, store, sids,
          cookie, last, completed, loggedOut, lastPut>>

db == <<users, content, skills, projects, audit_log>>
history == <<completed, loggedOut, lastPut>>

ADMIN_PASSWORD == OrNull(env)

(***************************************************************************)
(* Requests and responses.  A body holds every field a handler reads;      *)
(* a field the request left out is undefined.                              *)
(***************************************************************************)
EmptyBody ==
  [username |-> Undef, password |-> Undef,
   hero_headline |-> Undef, hero_subtitle |-> Undef,
   label |-> Undef, percent |-> Undef, sort |-> Undef,
   title |-> Undef, summary |-> Undef, stack |-> Undef,
   links |-> Undef, featured |-> Undef]

NoData == [user |-> <<>>, content |-> <<>>, skills |-> <<>>, projects |-> <<>>,
           newid |-> <<>>]

Response(op, c, id, body, status, error, data) ==
  [op |-> op, c |-> c, sid |-> cookie[c], id |-> id, body |-> body,
   status |-> status, error |-> error, data |-> data]

\* the session the store holds for browser c's cookie, if any
Session(c) == {s \in store : s.sid = cookie[c]}

\* (mutant) the user is looked up in the store without the request's cookie
SessionUserOfAnySession(c) ==
  IF store = {} THEN <<>> ELSE <<(CHOOSE s \in store : TRUE).user>>

\* req.session.user, as a list of at most one user
SessionUser(c) ==
  IF Session(c) = {} THEN <<>> ELSE <<(CHOOSE s \in Session(c) : TRUE).user>>

\* the user a session of the store holds for session id sid, if any
UserOf(st, sid) ==
  IF \A s \in st : s.sid # sid THEN <<>>
  ELSE <<(CHOOSE s \in st : s.sid = sid).user>>

\* requireAuth lets the request through
requireAuth(c) == SessionUser(c) # <<>>

\* JSON.stringify of the meta object of an audit entry
MetaString(s) == <<"\"">> \o s \o <<"\"">>
MetaField(k, v) == <<"\"", k, "\"", ":">> \o v
MetaJson(fields) ==
  CASE Len(fields) = 0 -> <<"{", "}">>
    [] Len(fields) = 1 -> <<"{">> \o fields[1] \o <<"}">>
    [] OTHER -> <<"{">> \o fields[1] \o <<",">> \o fields[2] \o <<"}">>

AuditEntry(log, actor, action, entity, entity_id, meta) ==
  [id |-> Len(log) + 1, actor |-> actor, action |-> action, entity |-> entity,
   entity_id |-> entity_id, meta_json |-> MetaJson(meta)]

\* (mutant) deletions are not audited
auditExceptDelete(log, actor, action, entity, entity_id, meta) ==
  IF action = "delete" THEN log
  ELSE Append(log, AuditEntry(log, actor, action, entity, entity_id, meta))

\* (mutant) the log keeps its newest entry only
auditKeepsLatest(log, actor, action, entity, entity_id, meta) ==
  <<AuditEntry(log, actor, action, entity, entity_id, meta)>>

\* audit(actor, action, entity, entity_id, meta): the log after the INSERT
audit(log, actor, action, entity, entity_id, meta) ==
  Append(log, AuditEntry(log, actor, action, entity, entity_id, meta))

\* info.lastInsertRowid of an INSERT into a table with INTEGER PRIMARY KEY
MaxId(rows) ==
  IF rows = {} THEN 0
  ELSE LET r == CHOOSE x \in rows : \A y \in rows : y.id <= x.id
       IN  r.id

lastInsertRowid(rows) == MaxId(rows) + 1

UserRow(username) == {i \in 1..Len(users) : users[i].username = username}

(***************************************************************************)
(* Start-up.                                                               *)
(***************************************************************************)
\* the seeded texts, cut to their first seven characters
DefaultHeadline == <<"T", "R", "-", "K", "I", "N", "G">>
DefaultSubtitle == <<"I", " ", "b", "u", "i", "l", "d">>

SeedContent == {[id |-> 1, hero_headline |-> DefaultHeadline,
                 hero_subtitle |-> DefaultSubtitle]}

AdminRow(password) ==
  [id |-> 1, username |-> ADMIN_USERNAME, password_hash |-> hashSync(password),
   role |-> "admin"]

Password == <<"p", "w">>
EnvValues == {Undef, Str(<<>>), Str(Password)}

\* data.sqlite is new, or was left by an earlier run that seeded the admin
\* (explored with the password still configured); db.js has created the
\* tables and the content row
Init ==
  /\ env \in EnvValues
  /\ boot = "start"
  /\ users \in IF env = Str(Password) THEN {<<>>, <<AdminRow(Password)>>} ELSE {<<>>}
  /\ content = SeedContent
  /\ skills = {}
  /\ projects = {}
  /\ audit_log = <<>>
  /\ store = {}
  /\ sids = 0
  /\ cookie = [c \in Clients |-> 0]
  /\ last = Response("listen", CHOOSE c \in Clients : TRUE, 0, EmptyBody, 0, "", NoData)
  /\ completed = 0
  /\ loggedOut = {}
  /\ lastPut = <<>>

\* (mutant) without ADMIN_PASSWORD the admin is seeded with a default password
ensureAdminUserWithDefault ==
  /\ boot = "start"
  /\ IF UserRow(ADMIN_USERNAME) # {}
     THEN boot' = "existing" /\ users' = users
     ELSE /\ boot' = IF Truthy(ADMIN_PASSWORD) THEN "seeded" ELSE "no-password"
          /\ users' = Append(users, AdminRow(IF Truthy(ADMIN_PASSWORD)
                                             THEN ADMIN_PASSWORD.s ELSE Password))
  /\ UNCHANGED <<env, content, skills, projects, audit_log, store, sids,
                 cookie, last, history>>

\* ensureAdminUser(): one of three branches
ensureAdminUser ==
  /\ boot = "start"
  /\ IF UserRow(ADMIN_USERNAME) # {}
     THEN boot' = "existing" /\ users' = users
     ELSE IF ~Truthy(ADMIN_PASSWORD)
     THEN boot' = "no-password" /\ users' = users
     ELSE /\ boot' = "seeded"
          /\ users' = Append(users, [id |-> Len(users) + 1,
                                     username |-> ADMIN_USERNAME,
                                     password_hash |-> hashSync(ADMIN_PASSWORD.s),
                                     role |-> "admin"])
  /\ UNCHANGED <<env, content, skills, projects, audit_log, store, sids,
                 cookie, last, history>>

listening == boot # "start"

(***************************************************************************)
(* What better-sqlite3 does with a bound parameter.                        *)
(***************************************************************************)
\* "SQLite3 can only bind numbers, strings, bigints, buffers, and null"
BindThrows(v) == v.t \in {"boolean", "object", "array"}

\* a NOT NULL column refuses NULL, which is what null and undefined bind as
NotNullThrows(v) == v.t \in {"null", "undefined"}

(***************************************************************************)
(* Authentication.                                                         *)
(***************************************************************************)
Error(status, error) == [status |-> status, error |-> error, user |-> <<>>]
Thrown == Error(500, "Internal Server Error")
InvalidCredentials == Error(401, "Invalid credentials")

\* POST /api/login up to the point where the session is written
login(body) ==
  LET found == IF body.username.t = "string" THEN UserRow(body.username.s) ELSE {}
      user == users[CHOOSE i \in found : TRUE]
  IN  IF BindThrows(body.username) THEN Thrown
      ELSE IF found = {} THEN InvalidCredentials
      ELSE IF compareThrows(body.password) THEN Thrown
      ELSE IF ~compareSync(body.password, user.password_hash) THEN InvalidCredentials
      ELSE [status |-> 200, error |-> "",
            user |-> <<[username |-> user.username, role |-> user.role]>>]

\* (mutant) logout leaves the session in the store
destroyNothing(st, sid) == st

\* req.session.destroy
destroy(st, sid) == {s \in st : s.sid # sid}

PostLogin(c, body) ==
  /\ listening
  /\ LET r == login(body)
     IN  IF r.status = 200
         THEN /\ Len(audit_log) < MaxAudit
              /\ IF Session(c) # {}
                 THEN /\ store' = {s \in store : s.sid # cookie[c]}
                                    \cup {[sid |-> cookie[c], user |-> r.user[1]]}
                      /\ UNCHANGED <<sids, cookie>>
                 ELSE /\ sids' = sids + 1
                      /\ store' = store \cup {[sid |-> sids + 1, user |-> r.user[1]]}
                      /\ cookie' = [cookie EXCEPT ![c] = sids + 1]
              /\ audit_log' = audit(audit_log, r.user[1].username, "login", "auth", <<>>, <<>>)
              /\ completed' = completed + 1
              /\ loggedOut' = loggedOut \ {cookie'[c]}
              /\ last' = Response("login", c, 0, body, 200, "",
                                  [NoData EXCEPT !.user = r.user])
         ELSE /\ last' = Response("login", c, 0, body, r.status, r.error, NoData)
              /\ UNCHANGED <<audit_log, store, sids, cookie, completed, loggedOut>>
  /\ UNCHANGED <<env, boot, users, content, skills, projects, lastPut>>

Unauthorized(op, c, id, body) ==
  /\ last' = Response(op, c, id, body, 401, "Unauthorized", NoData)
  /\ UNCHANGED <<env, boot, db, store, sids, cookie, history>>

\* a handler that answers without touching the tables or the session
Answer(op, c, id, body, status, error, data) ==
  /\ last' = Response(op, c, id, body, status, error, data)
  /\ UNCHANGED <<env, boot, db, store, sids, cookie, history>>

PostLogout(c) ==
  /\ listening
  /\ IF ~requireAuth(c) THEN Unauthorized("logout", c, 0, EmptyBody)
     ELSE /\ Len(audit_log) < MaxAudit
          /\ store' = destroy(store, cookie[c])
          /\ audit_log' = audit(audit_log, SessionUser(c)[1].username, "logout",
                                "auth", <<>>, <<>>)
          /\ completed' = completed + 1
          /\ loggedOut' = loggedOut \cup {cookie[c]}
          /\ last' = Response("logout", c, 0, EmptyBody, 200, "", NoData)
          /\ UNCHANGED <<env, boot, users, content, skills, projects, sids,
                         cookie, lastPut>>

GetMe(c) ==
  /\ listening
  /\ Answer("me", c, 0, EmptyBody, 200, "", [NoData EXCEPT !.user = SessionUser(c)])

(***************************************************************************)
(* The SELECT statements.                                                  *)
(***************************************************************************)
SelectContent(tbl) ==
  LET rows == {r \in tbl : r.id = 1}
      row == CHOOSE r \in rows : TRUE
  IN  IF rows = {} THEN <<>>
      ELSE <<[hero_headline |-> row.hero_headline,
              hero_subtitle |-> row.hero_subtitle]>>

\* ORDER BY sort ASC, id ASC
SkillBefore(x, y) == x.sort < y.sort \/ (x.sort = y.sort /\ x.id < y.id)

RECURSIVE OrderSkills(_)
OrderSkills(rows) ==
  IF rows = {} THEN <<>>
  ELSE LET m == CHOOSE x \in rows : \A y \in rows \ {x} : SkillBefore(x, y)
       IN  <<m>> \o OrderSkills(rows \ {m})

\* ORDER BY featured DESC, sort ASC, id DESC
ProjectBefore(x, y) ==
  \/ x.featured > y.featured
  \/ x.featured = y.featured /\ x.sort < y.sort
  \/ x.featured = y.featured /\ x.sort = y.sort /\ x.id > y.id

RECURSIVE OrderProjects(_)
OrderProjects(rows) ==
  IF rows = {} THEN <<>>
  ELSE LET m == CHOOSE x \in rows : \A y \in rows \ {x} : ProjectBefore(x, y)
       IN  <<m>> \o OrderProjects(rows \ {m})

\* .map(p => ({ ...p, links: JSON.parse(p.links_json || "[]") }))
WithLinks(p) ==
  [id |-> p.id, title |-> p.title, summary |-> p.summary, stack |-> p.stack,
   links_json |-> p.links_json, featured |-> p.featured, sort |-> p.sort,
   links |-> JSONparse(IF p.links_json = <<>> THEN <<"[", "]">> ELSE p.links_json).val]

ParseThrows(tbl) ==
  \E p \in tbl :
    ~JSONparse(IF p.links_json = <<>> THEN <<"[", "]">> ELSE p.links_json).ok

ListProjects(tbl) ==
  LET rows == OrderProjects(tbl)
  IN  [i \in 1..Len(rows) |-> WithLinks(rows[i])]

ListSkills(tbl) == OrderSkills(tbl)

PublicSkills(tbl) ==
  LET rows == OrderSkills(tbl)
  IN  [i \in 1..Len(rows) |->
         [id |-> rows[i].id, label |-> rows[i].label, percent |-> rows[i].percent]]

GetPublicContent(c) ==
  /\ listening
  /\ IF ParseThrows(projects)
     THEN Answer("publicContent", c, 0, EmptyBody, 500, Thrown.error, NoData)
     ELSE Answer("publicContent", c, 0, EmptyBody, 200, "",
                 [NoData EXCEPT !.content = SelectContent(content),
                                !.skills = PublicSkills(skills),
                                !.projects = ListProjects(projects)])

(***************************************************************************)
(* Admin: content.                                                         *)
(***************************************************************************)
GetAdminContent(c) ==
  /\ listening
  /\ IF ~requireAuth(c) THEN Unauthorized("getContent", c, 0, EmptyBody)
     ELSE Answer("getContent", c, 0, EmptyBody, 200, "",
                 [NoData EXCEPT !.content = SelectContent(content)])

\* UPDATE content SET hero_headline=?, hero_subtitle=? WHERE id=1
UpdateContent(tbl, headline, subtitle) ==
  {IF r.id = 1
   THEN [r EXCEPT !.hero_headline = headline, !.hero_subtitle = subtitle]
   ELSE r : r \in tbl}

PutAdminContent(c, body) ==
  /\ listening
  /\ IF ~requireAuth(c) THEN Unauthorized("putContent", c, 0, body)
     ELSE IF ~Truthy(body.hero_headline) \/ ~Truthy(body.hero_subtitle)
     THEN Answer("putContent", c, 0, body, 400, "Missing fields", NoData)
     ELSE IF ~HasTrim(body.hero_headline) \/ ~HasTrim(body.hero_subtitle)
     THEN Answer("putContent", c, 0, body, Thrown.status, Thrown.error, NoData)
     ELSE /\ Len(audit_log) < MaxAudit
          /\ content' = UpdateContent(content, trim(body.hero_headline.s),
                                      trim(body.hero_subtitle.s))
          /\ audit_log' = audit(audit_log, SessionUser(c)[1].username, "update",
                                "content", <<1>>, <<>>)
          /\ completed' = completed + 1
          /\ lastPut' = <<[hero_headline |-> body.hero_headline,
                           hero_subtitle |-> body.hero_subtitle]>>
          /\ last' = Response("putContent", c, 0, body, 200, "", NoData)
          /\ UNCHANGED <<env, boot, users, skills, projects, store, sids, cookie,
                         loggedOut>>

(***************************************************************************)
(* Admin: skills.                                                          *)
(***************************************************************************)
GetAdminSkills(c) ==
  /\ listening
  /\ IF ~requireAuth(c) THEN Unauthorized("getSkills", c, 0, EmptyBody)
     ELSE Answer("getSkills", c, 0, EmptyBody, 200, "",
                 [NoData EXCEPT !.skills = ListSkills(skills)])

\* !Number.isFinite(pct) || pct < 0 || pct > 100
PercentRejected(pct) == ~IsFinite(pct) \/ pct.v < 0 \/ pct.v > 100

\* INSERT INTO skills (label, percent, sort) VALUES (?, ?, ?)
InsertSkill(tbl, label, percent, sort) ==
  tbl \cup {[id |-> lastInsertRowid(tbl), label |-> label, percent |-> percent,
             sort |-> sort]}

\* UPDATE skills SET label=?, percent=?, sort=? WHERE id=?
UpdateSkill(tbl, label, percent, sort, id) ==
  {IF r.id = id
   THEN [r EXCEPT !.label = label, !.percent = percent, !.sort = sort]
   ELSE r : r \in tbl}

\* DELETE FROM t WHERE id=?
DeleteRow(tbl, id) == {r \in tbl : r.id # id}

SkillMeta(body, pct) ==
  <<MetaField("label", MetaString(body.label.s)),
    MetaField("percent", NumberToString(pct.v))>>

\* the checks POST and PUT share, in the order the handlers make them:
\* 0 when the statement runs, else the status answered
SkillStatus(body) ==
  LET sort == Default(body.sort, Num(0))
  IN  IF ~Truthy(body.label) THEN 400
      ELSE IF PercentRejected(Number(body.percent)) THEN 400
      ELSE IF ~HasTrim(body.label) THEN Thrown.status
      ELSE IF BindThrows(sort) \/ NotNullThrows(sort) THEN Thrown.status
      ELSE 0

SkillError(body) ==
  IF ~Truthy(body.label) THEN "Label required"
  ELSE IF PercentRejected(Number(body.percent)) THEN "Percent 0-100"
  ELSE Thrown.error

PostAdminSkills(c, body) ==
  /\ listening
  /\ IF ~requireAuth(c) THEN Unauthorized("postSkills", c, 0, body)
     ELSE IF SkillStatus(body) # 0
     THEN Answer("postSkills", c, 0, body, SkillStatus(body), SkillError(body), NoData)
     ELSE LET pct == Number(body.percent)
              id == lastInsertRowid(skills)
          IN  /\ Len(audit_log) < MaxAudit
              /\ skills' = InsertSkill(skills, trim(body.label.s), pct.v,
                                       Default(body.sort, Num(0)).n)
              /\ audit_log' = audit(audit_log, SessionUser(c)[1].username, "create",
                                    "skill", <<id>>, SkillMeta(body, pct))
              /\ completed' = completed + 1
              /\ last' = Response("postSkills", c, 0, body, 200, "",
                                  [NoData EXCEPT !.newid = <<id>>])
              /\ UNCHANGED <<env, boot, users, content, projects, store, sids,
                             cookie, loggedOut, lastPut>>

PutAdminSkill(c, id, body) ==
  /\ listening
  /\ IF ~requireAuth(c) THEN Unauthorized("putSkill", c, id, body)
     ELSE IF SkillStatus(body) # 0
     THEN Answer("putSkill", c, id, body, SkillStatus(body), SkillError(body), NoData)
     ELSE LET pct == Number(body.percent)
          IN  /\ Len(audit_log) < MaxAudit
              /\ skills' = UpdateSkill(skills, trim(body.label.s), pct.v,
                                       Default(body.sort, Num(0)).n, id)
              /\ audit_log' = audit(audit_log, SessionUser(c)[1].username, "update",
                                    "skill", <<id>>, SkillMeta(body, pct))
              /\ completed' = completed + 1
              /\ last' = Response("putSkill", c, id, body, 200, "", NoData)
              /\ UNCHANGED <<env, boot, users, content, projects, store, sids,
                             cookie, loggedOut, lastPut>>

DeleteAdminSkill(c, id) ==
  /\ listening
  /\ IF ~requireAuth(c) THEN Unauthorized("deleteSkill", c, id, EmptyBody)
     ELSE /\ Len(audit_log) < MaxAudit
          /\ skills' = DeleteRow(skills, id)
          /\ audit_log' = audit(audit_log, SessionUser(c)[1].username, "delete",
                                "skill", <<id>>, <<>>)
          /\ completed' = completed + 1
          /\ last' = Response("deleteSkill", c, id, EmptyBody, 200, "", NoData)
          /\ UNCHANGED <<env, boot, users, content, projects, store, sids,
                         cookie, loggedOut, lastPut>>

(***************************************************************************)
(* Admin: projects.                                                        *)
(***************************************************************************)
GetAdminProjects(c) ==
  /\ listening
  /\ IF ~requireAuth(c) THEN Unauthorized("getProjects", c, 0, EmptyBody)
     ELSE IF ParseThrows(projects)
     THEN Answer("getProjects", c, 0, EmptyBody, Thrown.status, Thrown.error, NoData)
     ELSE Answer("getProjects", c, 0, EmptyBody, 200, "",
                 [NoData EXCEPT !.projects = ListProjects(projects)])

\* String(stack || "").trim(), stack = "" when the body has none
StackText(v) ==
  LET stack == Default(v, Str(<<>>))
  IN  trim(String(IF Truthy(stack) THEN stack ELSE Str(<<>>)))

\* JSON.stringify(Array.isArray(links) ? links : []), links = [] by default
LinksJson(v) == JSONstringify(LinksOrEmpty(Default(v, Arr(<<>>))))

\* featured ? 1 : 0, featured = 0 by default
Featured(v) == IF Truthy(Default(v, Num(0))) THEN 1 ELSE 0

\* the values bound to title, summary, stack, links_json, featured, sort
ProjectValues(body) ==
  [title |-> trim(body.title.s), summary |-> trim(body.summary.s),
   stack |-> StackText(body.stack), links_json |-> LinksJson(body.links),
   featured |-> Featured(body.featured), sort |-> Default(body.sort, Num(0)).n]

\* INSERT INTO projects (title, summary, stack, links_json, featured, sort)
InsertProject(tbl, v) ==
  tbl \cup {[id |-> lastInsertRowid(tbl), title |-> v.title, summary |-> v.summary,
             stack |-> v.stack, links_json |-> v.links_json,
             featured |-> v.featured, sort |-> v.sort]}

\* UPDATE projects SET title=?, ..., sort=? WHERE id=?
UpdateProject(tbl, v, id) ==
  {IF r.id = id
   THEN [id |-> r.id, title |-> v.title, summary |-> v.summary, stack |-> v.stack,
         links_json |-> v.links_json, featured |-> v.featured, sort |-> v.sort]
   ELSE r : r \in tbl}

ProjectMeta(body) == <<MetaField("title", MetaString(body.title.s))>>

\* 0 when the statement runs, else the status answered
ProjectStatus(body) ==
  LET sort == Default(body.sort, Num(0))
  IN  IF ~Truthy(body.title) \/ ~Truthy(body.summary) THEN 400
      ELSE IF ~HasTrim(body.title) \/ ~HasTrim(body.summary) THEN Thrown.status
      ELSE IF BindThrows(sort) \/ NotNullThrows(sort) THEN Thrown.status
      ELSE 0

ProjectError(body) ==
  IF ~Truthy(body.title) \/ ~Truthy(body.summary)
  THEN "Title and summary required" ELSE Thrown.error

PostAdminProjects(c, body) ==
  /\ listening
  /\ IF ~requireAuth(c) THEN Unauthorized("postProjects", c, 0, body)
     ELSE IF ProjectStatus(body) # 0
     THEN Answer("postProjects", c, 0, body, ProjectStatus(body),
                 ProjectError(body), NoData)
     ELSE LET id == lastInsertRowid(projects)
          IN  /\ Len(audit_log) < MaxAudit
              /\ projects' = InsertProject(projects, ProjectValues(body))
              /\ audit_log' = audit(audit_log, SessionUser(c)[1].username, "create",
                                    "project", <<id>>, ProjectMeta(body))
              /\ completed' = completed + 1
              /\ last' = Response("postProjects", c, 0, body, 200, "",
                                  [NoData EXCEPT !.newid = <<id>>])
              /\ UNCHANGED <<env, boot, users, content, skills, store, sids,
                             cookie, loggedOut, lastPut>>

PutAdminProject(c, id, body) ==
  /\ listening
  /\ IF ~requireAuth(c) THEN Unauthorized("putProject", c, id, body)
     ELSE IF ProjectStatus(body) # 0
     THEN Answer("putProject", c, id, body, ProjectStatus(body),
                 ProjectError(body), NoData)
     ELSE /\ Len(audit_log) < MaxAudit
          /\ projects' = UpdateProject(projects, ProjectValues(body), id)
          /\ audit_log' = audit(audit_log, SessionUser(c)[1].username, "update",
                                "project", <<id>>, ProjectMeta(body))
          /\ completed' = completed + 1
          /\ last' = Response("putProject", c, id, body, 200, "", NoData)
          /\ UNCHANGED <<env, boot, users, content, skills, store, sids,
                         cookie, loggedOut, lastPut>>

DeleteAdminProject(c, id) ==
  /\ listening
  /\ IF ~requireAuth(c) THEN Unauthorized("deleteProject", c, id, EmptyBody)
     ELSE /\ Len(audit_log) < MaxAudit
          /\ projects' = DeleteRow(projects, id)
          /\ audit_log' = audit(audit_log, SessionUser(c)[1].username, "delete",
                                "project", <<id>>, <<>>)
          /\ completed' = completed + 1
          /\ last' = Response("deleteProject", c, id, EmptyBody, 200, "", NoData)
          /\ UNCHANGED <<env, boot, users, content, skills, store, sids,
                         cookie, loggedOut, lastPut>>

(***************************************************************************)
(* The requests explored.                                                  *)
(***************************************************************************)
A == <<"a">>
PaddedA == <<" ", "a", " ">>
Blank == <<" ">>
Empty == <<>>

Nobody == <<"b", "o", "b">>
WrongPassword == <<"n", "o">>

Login(u, p) == [EmptyBody EXCEPT !.username = u, !.password = p]
GoodLogin == Login(Str(ADMIN_USERNAME), Str(Password))

LoginPasswords == {Str(Password), Str(WrongPassword), Str(Empty), Undef, Null, Num(5)}

LoginBodies ==
  {Login(u, p) : u \in {Str(ADMIN_USERNAME), Str(Nobody), Undef}, p \in LoginPasswords}

\* :id of the URL, after Number(req.params.id)
Id(text) == Number(Str(text)).v
IdParams == {Id(<<"1">>), Id(<<"2">>)}

TextValues == {Undef, Null, Str(Empty), Str(Blank), Str(PaddedA), Str(A), Num(5)}

ContentBodies ==
  {[EmptyBody EXCEPT !.hero_headline = h, !.hero_subtitle = Str(PaddedA)] :
     h \in TextValues}
  \cup
  {[EmptyBody EXCEPT !.hero_headline = Str(A), !.hero_subtitle = s] : s \in TextValues}

PercentValues ==
  {Undef, Null, Str(Empty), Str(<<"5", "0">>), Str(A), Bool(TRUE), Obj,
   Num(0 - 1), Num(0), Num(50), Num(100), Num(101)}

SkillBase == [EmptyBody EXCEPT !.label = Str(PaddedA), !.percent = Num(50)]

SkillBodies ==
  {[SkillBase EXCEPT !.percent = p] : p \in PercentValues}
  \cup {[SkillBase EXCEPT !.label = l] : l \in {Undef, Str(Blank), Num(5)}}
  \cup {[SkillBase EXCEPT !.sort = s] : s \in {Num(1), Null}}

Links1 == <<Link("https://x", "x")>>
Links2 == <<Link("https://x", "x"), Link("https://y", "y")>>

LinksValues == {Undef, Null, Str(A), Obj, Arr(<<>>), Arr(Links1), Arr(Links2)}

ProjectBase == [EmptyBody EXCEPT !.title = Str(PaddedA), !.summary = Str(A)]

ProjectBodies ==
  {[ProjectBase EXCEPT !.links = l] : l \in LinksValues}
  \cup {[ProjectBase EXCEPT !.title = Undef], [ProjectBase EXCEPT !.summary = Num(5)]}
  \cup {[ProjectBase EXCEPT !.stack = Str(PaddedA), !.featured = Bool(TRUE),
                            !.sort = Num(1)],
        [ProjectBase EXCEPT !.stack = Num(5), !.sort = Null]}

\* one accepted and one refused body per endpoint, for the runs that cover
\* every endpoint
FewLogins == {GoodLogin, Login(Str(ADMIN_USERNAME), Str(WrongPassword))}
FewContent ==
  {[EmptyBody EXCEPT !.hero_headline = Str(PaddedA), !.hero_subtitle = Str(A)],
   [EmptyBody EXCEPT !.hero_subtitle = Str(A)]}
FewSkills == {SkillBase, [SkillBase EXCEPT !.percent = Num(101)]}
FewProjects ==
  {[ProjectBase EXCEPT !.links = Arr(Links1)], [ProjectBase EXCEPT !.title = Undef]}
FewIds == {Id(<<"1">>)}

Auth(C, logins) ==
  \/ \E c \in C, body \in logins : PostLogin(c, body)
  \/ \E c \in C : PostLogout(c)
  \/ \E c \in C : GetMe(c)

Public(C) == \E c \in C : GetPublicContent(c)

Content(C, bodies) ==
  \/ \E c \in C : GetAdminContent(c)
  \/ \E c \in C, body \in bodies : PutAdminContent(c, body)

Skills(C, ids, bodies) ==
  \/ \E c \in C : GetAdminSkills(c)
  \/ \E c \in C, body \in bodies : PostAdminSkills(c, body)
  \/ \E c \in C, id \in ids, body \in bodies : PutAdminSkill(c, id, body)
  \/ \E c \in C, id \in ids : DeleteAdminSkill(c, id)

Projects(C, ids, bodies) ==
  \/ \E c \in C : GetAdminProjects(c)
  \/ \E c \in C, body \in bodies : PostAdminProjects(c, body)
  \/ \E c \in C, id \in ids, body \in bodies : PutAdminProject(c, id, body)
  \/ \E c \in C, id \in ids : DeleteAdminProject(c, id)

\* every endpoint, two browsers
Next ==
  \/ ensureAdminUser
  \/ Auth(Clients, FewLogins)
  \/ Public(Clients)
  \/ Content(Clients, FewContent)
  \/ Skills(Clients, FewIds, FewSkills)
  \/ Projects(Clients, FewIds, FewProjects)

Spec == Init /\ [][Next]_vars

\* a new data.sqlite and a configured password
InitFresh == Init /\ env = Str(Password) /\ users = <<>>

One == {"c1"}

\* the login endpoint with every combination of username and password
NextAuth == ensureAdminUser \/ Auth(Clients, LoginBodies)
SpecAuth == Init /\ [][NextAuth]_vars

NextContent ==
  ensureAdminUser \/ Auth(One, {GoodLogin}) \/ Public(One) \/ Content(One, ContentBodies)
SpecContent == InitFresh /\ [][NextContent]_vars

NextSkills ==
  ensureAdminUser \/ Auth(One, {GoodLogin}) \/ Public(One)
    \/ Skills(One, IdParams, SkillBodies)
SpecSkills == InitFresh /\ [][NextSkills]_vars

NextProjects ==
  ensureAdminUser \/ Auth(One, {GoodLogin}) \/ Public(One)
    \/ Projects(One, IdParams, ProjectBodies)
SpecProjects == InitFresh /\ [][NextProjects]_vars

(***************************************************************************)
(* Properties.                                                             *)
(***************************************************************************)
MutatingOps ==
  {"putContent", "postSkills", "putSkill", "deleteSkill",
   "postProjects", "putProject", "deleteProject"}
AdminOps == MutatingOps \cup {"getContent", "getSkills", "getProjects"}
AuditedOps == MutatingOps \cup {"login", "logout"}
GatedOps == AdminOps \cup {"logout"}

\* the response says the action was carried out
Completed(l) == l.op \in AuditedOps /\ l.status = 200

\* the entry the step appended, when it appended exactly one
Appended == audit_log'[Len(audit_log')]
AppendedOne ==
  /\ Len(audit_log') = Len(audit_log) + 1
  /\ SubSeq(audit_log', 1, Len(audit_log)) = audit_log

\* C1: every completed login, logout and mutating admin action appends
\* exactly one audit entry whose actor is the username of the session that
\* issued the request (for a login, the session it established), no other
\* request appends one, and so the log is as long as the number of
\* completed actions.
C1_OneEntryPerAction ==
  [][/\ Len(audit_log') = completed'
     /\ IF Completed(last')
        THEN /\ completed' = completed + 1
             /\ AppendedOne
             /\ LET session == IF last'.op = "login"
                               THEN UserOf(store', cookie'[last'.c])
                               ELSE UserOf(store, last'.sid)
                IN  session # <<>> /\ Appended.actor = session[1].username
        ELSE audit_log' = audit_log /\ completed' = completed]_vars

\* a mutation by one browser is on record after a login by each of the two
C1_Witness ==
  /\ Completed(last) /\ last.op \in MutatingOps
  /\ Len(audit_log) = 3
  /\ audit_log[1].action = "login" /\ audit_log[2].action = "login"
  /\ audit_log[3].action \in {"create", "update", "delete"}

\* C2: a request to /api/logout or /api/admin/* whose session holds no user
\* is answered 401 Unauthorized and changes no table and no session.
C2_GateBeforeHandler ==
  [][(last'.op \in GatedOps /\ \A s \in store : s.sid # last'.sid)
       => /\ last'.status = 401 /\ last'.error = "Unauthorized"
          /\ UNCHANGED <<users, content, skills, projects, audit_log, store>>]_vars

\* a browser without a session was turned away while another one is logged
\* in and the tables hold its work
C2_Witness ==
  /\ last.op \in MutatingOps /\ last.status = 401
  /\ last.sid = 0
  /\ store # {}
  /\ skills # {}

\* C3: once a logout on a session id has been answered, a request carrying
\* that id gets {user: null} from /api/me and 401 from /api/admin/*, until
\* a login on it succeeds; and the step that answers the logout has removed
\* the session from the store and appended the logout audit entry.
C3_LoggedOutStaysOut ==
  [][/\ last'.sid \in loggedOut
          => /\ last'.op = "me" => last'.status = 200 /\ last'.data.user = <<>>
             /\ last'.op \in AdminOps => last'.status = 401
     /\ (last'.op = "logout" /\ last'.status = 200)
          => /\ \A s \in store' : s.sid # last'.sid
             /\ AppendedOne
             /\ Appended.action = "logout"
             /\ Appended.actor = UserOf(store, last'.sid)[1].username]_vars

\* an admin request with the cookie of a logged-out session was refused
C3_Witness ==
  /\ last.sid \in loggedOut
  /\ last.op \in AdminOps /\ last.status = 401

C8_AppendOnly ==
  [][/\ Len(audit_log') >= Len(audit_log)
     /\ SubSeq(audit_log', 1, Len(audit_log)) = audit_log]_vars

\* a mutation was logged behind the logins of two browsers
C8_Witness ==
  /\ Len(audit_log) = 3 /\ last.op \in MutatingOps /\ last.status = 200
  /\ audit_log[3].entity \in {"content", "skill", "project"}
  /\ audit_log[1].id = 1 /\ audit_log[2].id = 2

\* the session that sent the request held a user
Authenticated == \E s \in store : s.sid = last'.sid

\* a percent that is absent, null, an empty string, a boolean, a non-number
\* object, or a number outside [0,100]
NotAPercent(v) ==
  \/ v.t \in {"undefined", "null", "boolean", "object"}
  \/ v.t = "string" /\ v.s = <<>>
  \/ v.t = "number" /\ (v.n < 0 \/ v.n > 100)

\* C4: an authenticated skill create or update whose percent is absent,
\* null, an empty string, a boolean, a non-number object or a number
\* outside [0,100] is answered 400, and changes neither the skills table nor
\* the audit log.
C4_BadPercentRejected ==
  [][(/\ last'.op \in {"postSkills", "putSkill"}
      /\ Authenticated
      /\ NotAPercent(last'.body.percent))
       => /\ last'.status = 400
          /\ skills' = skills
          /\ audit_log' = audit_log]_vars

\* t is s without its leading and trailing white space
IsTrimOf(t, s) ==
  /\ t # <<>> => ~IsWhite(t[1]) /\ ~IsWhite(t[Len(t)])
  /\ \E i \in 0..Len(s) :
       /\ i + Len(t) <= Len(s)
       /\ SubSeq(s, i + 1, i + Len(t)) = t
       /\ \A k \in 1..Len(s) : (k <= i \/ k > i + Len(t)) => IsWhite(s[k])

\* a string with a character that is not white space
NonEmptyText(v) == v.t = "string" /\ \E k \in 1..Len(v.s) : ~IsWhite(v.s[k])

\* a field that is missing, empty or only white space
MissingText(v) ==
  \/ v.t \in {"undefined", "null"}
  \/ v.t = "string" /\ \A k \in 1..Len(v.s) : IsWhite(v.s[k])

\* C5: an authenticated content update is accepted only when headline and
\* subtitle are both non-empty after trimming; when either is missing,
\* empty or only white space it is answered 400 and changes neither the
\* content row nor the audit log; so no stored headline or subtitle is
\* empty.
C5_BlankContentRejected ==
  [][/\ (/\ last'.op = "putContent"
         /\ Authenticated
         /\ MissingText(last'.body.hero_headline) \/ MissingText(last'.body.hero_subtitle))
          => /\ last'.status = 400
             /\ content' = content
             /\ audit_log' = audit_log
     /\ \A r \in content' : r.hero_headline # <<>> /\ r.hero_subtitle # <<>>]_vars

\* of the admin's username and the unknown one, the one that v is not
OtherUsername(v) == IF v = Str(ADMIN_USERNAME) THEN Str(Nobody) ELSE Str(ADMIN_USERNAME)

\* C6: while the admin exists, a login with the admin's username and a
\* password that is not the admin's, absent ones included, gets the very
\* response a login with an unknown username and that password gets, and
\* the other way round: 401 "Invalid credentials"; neither sets a session
\* user nor writes an audit entry.
C6_SameRefusal ==
  [][(/\ last'.op = "login"
      /\ UserRow(ADMIN_USERNAME) # {} /\ UserRow(Nobody) = {}
      /\ last'.body.username \in {Str(ADMIN_USERNAME), Str(Nobody)}
      /\ last'.body.password # Str(Password))
       => /\ last'.status = 401 /\ last'.error = "Invalid credentials"
          /\ LET other == login(Login(OtherUsername(last'.body.username),
                                      last'.body.password))
             IN  other.status = last'.status /\ other.error = last'.error
          /\ last'.data.user = <<>>
          /\ store' = store
          /\ audit_log' = audit_log]_vars

\* C9: after an accepted content update with a valid headline and subtitle,
\* a content read (admin or public) with no other update in between returns
\* exactly the trimmed headline and subtitle, and the content table holds
\* exactly one row, whose id is 1.
C9_ContentRoundTrip ==
  (/\ last.op \in {"getContent", "publicContent"}
   /\ last.status = 200
   /\ lastPut # <<>>
   /\ NonEmptyText(lastPut[1].hero_headline)
   /\ NonEmptyText(lastPut[1].hero_subtitle))
    => /\ Len(last.data.content) = 1
       /\ IsTrimOf(last.data.content[1].hero_headline, lastPut[1].hero_headline.s)
       /\ IsTrimOf(last.data.content[1].hero_subtitle, lastPut[1].hero_subtitle.s)
       /\ Cardinality(content) = 1
       /\ \A r \in content : r.id = 1

\* the public endpoint returned a headline that was submitted with white
\* space around it
C9_Witness ==
  /\ last.op = "publicContent" /\ last.status = 200
  /\ lastPut # <<>>
  /\ lastPut[1].hero_headline = Str(PaddedA)
  /\ lastPut[1].hero_subtitle = Str(PaddedA)
  /\ last.data.content[1].hero_headline = A

\* the listing holds project id with these links
Listed(tbl, id, links) ==
  \E k \in 1..Len(ListProjects(tbl)) :
    ListProjects(tbl)[k].id = id /\ ListProjects(tbl)[k].links = links

\* the list the claim expects for a submitted links value
ExpectedLinks(v) == IF v.t = "array" THEN v.a ELSE <<>>

AllLinksDecode == \A p \in projects' : JSONparse(p.links_json).ok

\* C10 as stated: after every project create or update the listing returns
\* that project, its links equal to the submitted list, or empty when no
\* list was submitted; and every stored project's links decode to a list.
C10_EveryUpdateListed ==
  [][/\ (last'.op = "postProjects" /\ last'.status = 200)
          => Listed(projects', last'.data.newid[1], ExpectedLinks(last'.body.links))
     /\ (last'.op = "putProject" /\ last'.status = 200)
          => Listed(projects', last'.id, ExpectedLinks(last'.body.links))
     /\ AllLinksDecode]_vars

\* C10 amended: the same for every create and for every update of a project
\* that exists.
C10_LinksRoundTrip ==
  [][/\ (last'.op = "postProjects" /\ last'.status = 200)
          => Listed(projects', last'.data.newid[1], ExpectedLinks(last'.body.links))
     /\ (last'.op = "putProject" /\ last'.status = 200
           /\ \E r \in projects : r.id = last'.id)
          => Listed(projects', last'.id, ExpectedLinks(last'.body.links))
     /\ AllLinksDecode]_vars

\* a stored project was updated with a list of two links
C10_Witness ==
  /\ last.op = "putProject" /\ last.status = 200
  /\ last.body.links = Arr(Links2)
  /\ Listed(projects, last.id, Links2)
====
